---- MODULE Spec2Model ----
(***************************************************************************)
(* The SMBus transport of go-daq/smbus (package smbus): a Conn owns one    *)
(* /dev/i2c-N descriptor; every register operation first selects the       *)
(* device address with ioctl(I2C_SLAVE) and then issues one                *)
(* ioctl(I2C_SMBUS) carrying an i2cCmd.                                    *)
(*                                                                         *)
(* The Linux i2c-dev driver and the devices on the bus are the             *)
(* environment: Syscall6, SMBusXfer, DevRead and DevWrite describe a       *)
(* kernel that keeps the selected address per descriptor and devices that  *)
(* store what is written to a register.  Whether a system call is          *)
(* accepted is the environment's choice (the e parameters: 0 or an errno). *)
(* The payload pointer of an i2cCmd is modelled by the cells it points to, *)
(* taken to stay valid for the duration of the system call.                *)
(*                                                                         *)
(* SpecTSL is the TSL2591 driver (package tsl2591) on top of a Conn: its   *)
(* operations are sequences of WriteReg and ReadWord calls.                *)
(***************************************************************************)
EXTENDS Integers, Sequences, FiniteSets, TLC

\* ------------------------------------------------------------ constants
i2cSlave == 1795
i2cSMBus == 1824
i2cSMBusWrite == 0
i2cSMBusRead == 1
i2cSMBusByteData == 2
i2cSMBusWordData == 3
i2cSMBusBlockData == 5
i2cSMBusI2CBlockData == 8
i2cSMBusBlockMax == 32

\* error values: nil, the package's own error, os.ErrClosed, and errnos
nil == 0
errSMBusBlockDataMax == -1
ErrClosed == -2
ENOENT == 2
EIO == 5
ENXIO == 6
EBADF == 9
EACCES == 13
EBUSY == 16
EINVAL == 22
ENOTTY == 25

\* the system calls behind File.Read and File.Write, as the log names them
sysRead == 0
sysWrite == 1

\* the value of the selected address of a descriptor nothing was selected on
NoAddr == -1

\* ------------------------------------------------------------ bounds
\* block lengths above the protocol maximum that callers try
Over == 1
\* descriptors of the bus the process may hold open at once
MaxFds == 1

\* ------------------------------------------------------------ inputs
Threads == {"main", "A", "B"}
Workers == {"A", "B"}

Addrs == {68, 80}
Regs == {0, 32}
\* the registers the callers write to
WriteRegs == {32}
ByteVals == {222}
WordVals == {48879}
Lens == {0, 1, 4, i2cSMBusBlockMax} \cup ((i2cSMBusBlockMax + 1) .. (i2cSMBusBlockMax + Over))
Buses == {0, 7}
\* the buses whose device file exists
Present == {0}

\* what the environment may answer to a select, a transaction, an open
SelectOutcomes == {0, EBUSY}
XferOutcomes == {0, EIO, ENXIO}
\* to the select and the transaction of one register operation
RegOutcomes == {<<0, 0>>, <<EBUSY, 0>>, <<0, EIO>>, <<0, ENXIO>>}
OpenOutcomes == {0, EACCES}

\* an n-byte payload: 0xDE 0xAD 0xBE 0xEF, then a pattern
Payload(n) == [i \in 1..n |-> IF i <= 4 THEN <<222, 173, 190, 239>>[i] ELSE (i * 7) % 256]
\* an n-byte buffer a caller hands to a read, holding 0xAA
Fill(n) == [i \in 1..n |-> 170]
Zeros(n) == [i \in 1..n |-> 0]

VARIABLES
  kern,    \* the descriptor of the Conn, its selected address, the devices' registers
  fds,     \* descriptors of the bus open in the process
  want,    \* the address the caller selected last with success on this Conn
  ret,     \* per thread: the last call that returned
  frame,   \* per thread: the call in flight between its two system calls
  mutex,   \* the callers' lock around a shared Conn
  dev      \* the *Device a caller of the TSL2591 driver holds

vars == <<kern, fds, want, ret, frame, mutex, dev>>

\* ------------------------------------------------------------ environment
NoCmd == [rw |-> 0, cmd |-> 0, len |-> 0, ptr |-> <<>>]

\* one system call as the kernel saw it; target is the address selected on the
\* descriptor when the call arrived: where a transfer goes, what a select replaces;
\* cmd.ptr is the payload buffer as handed in, res the buffer when the call returned
Entry(req, arg, target, cmd, res, e1) ==
  [req |-> req, arg |-> arg, target |-> target, cmd |-> cmd, res |-> res, errno |-> e1]

DevRead(mem, a, reg, n) ==
  [i \in 1..n |-> IF i <= Len(mem[a][reg]) THEN mem[a][reg][i] ELSE 0]

\* cell i of a block buffer as the kernel reads it: the slice's backing array
\* holds 34 bytes, zero beyond the slice
Cell(ptr, i) == IF i <= Len(ptr) THEN ptr[i] ELSE 0

DevWrite(mem, a, reg, bytes) ==
  IF bytes = <<>> THEN mem ELSE [mem EXCEPT ![a][reg] = bytes]

\* the I2C_SMBUS request of i2c-dev on the selected address
SMBusXfer(k, cmd, e) ==
  IF e # 0 THEN [k |-> k, ptr |-> cmd.ptr, e1 |-> e]
  ELSE IF k.sel \notin DOMAIN k.mem THEN [k |-> k, ptr |-> cmd.ptr, e1 |-> ENXIO]
  ELSE IF cmd.len = i2cSMBusByteData THEN
    IF cmd.rw = i2cSMBusRead
    THEN [k |-> k, ptr |-> DevRead(k.mem, k.sel, cmd.cmd, 1), e1 |-> 0]
    ELSE [k |-> [k EXCEPT !.mem = DevWrite(k.mem, k.sel, cmd.cmd, <<cmd.ptr[1] % 256>>)],
          ptr |-> cmd.ptr, e1 |-> 0]
  ELSE IF cmd.len = i2cSMBusWordData THEN
    IF cmd.rw = i2cSMBusRead
    THEN LET b == DevRead(k.mem, k.sel, cmd.cmd, 2)
         IN [k |-> k, ptr |-> <<b[1] + 256 * b[2]>>, e1 |-> 0]
    ELSE [k |-> [k EXCEPT !.mem = DevWrite(k.mem, k.sel, cmd.cmd,
                                          <<cmd.ptr[1] % 256, (cmd.ptr[1] \div 256) % 256>>)],
          ptr |-> cmd.ptr, e1 |-> 0]
  ELSE IF cmd.len = i2cSMBusI2CBlockData THEN
    IF cmd.ptr[1] > i2cSMBusBlockMax THEN [k |-> k, ptr |-> cmd.ptr, e1 |-> EINVAL]
    ELSE IF cmd.rw = i2cSMBusRead
    THEN LET n == cmd.ptr[1]
             b == DevRead(k.mem, k.sel, cmd.cmd, n)
         IN [k |-> k,
             ptr |-> [i \in 1..Len(cmd.ptr) |-> IF 1 < i /\ i <= n + 1 THEN b[i - 1] ELSE cmd.ptr[i]],
             e1 |-> 0]
    ELSE [k |-> [k EXCEPT !.mem = DevWrite(k.mem, k.sel, cmd.cmd,
                                          [i \in 1..cmd.ptr[1] |-> Cell(cmd.ptr, i + 1)])],
          ptr |-> cmd.ptr, e1 |-> 0]
  ELSE [k |-> k, ptr |-> cmd.ptr, e1 |-> EINVAL]

\* write(2) and read(2) of i2c-dev: one plain transfer with the selected address
FileWrite(k, buf, e) ==
  IF e # 0 THEN [k |-> k, n |-> 0, ptr |-> buf, e1 |-> e]
  ELSE [k |-> k, n |-> Len(buf), ptr |-> buf, e1 |-> 0]

FileRead(k, p, e) ==
  IF e # 0 THEN [k |-> k, n |-> 0, ptr |-> p, e1 |-> e]
  ELSE IF k.sel \notin DOMAIN k.mem THEN [k |-> k, n |-> 0, ptr |-> p, e1 |-> ENXIO]
  ELSE [k |-> k, n |-> Len(p), ptr |-> DevRead(k.mem, k.sel, 0, Len(p)), e1 |-> 0]

\* the ioctl system call on the Conn's descriptor
Syscall6(k, req, arg, e) ==
  IF k.fd # "open"
  THEN [k |-> k, ptr |-> IF req = i2cSMBus THEN arg.ptr ELSE <<>>, e1 |-> EBADF]
  ELSE IF req = i2cSlave THEN
    IF e # 0 THEN [k |-> k, ptr |-> <<>>, e1 |-> e]
    ELSE [k |-> [k EXCEPT !.sel = arg], ptr |-> <<>>, e1 |-> 0]
  ELSE IF req = i2cSMBus THEN SMBusXfer(k, arg, e)
  ELSE [k |-> k, ptr |-> <<>>, e1 |-> ENOTTY]

\* ------------------------------------------------------------ transport
i2cCmd(rw, cmd, len, ptr) == [rw |-> rw, cmd |-> cmd, len |-> len, ptr |-> ptr]

\* ioctl dropping the errno
ioctlDropsErrno(k, req, arg, e) ==
  LET r == Syscall6(k, req, arg, e)
  IN [k |-> r.k,
      ptr |-> r.ptr,
      calls |-> <<Entry(req, IF req = i2cSlave THEN arg ELSE 0,
                        k.sel,
                        IF req = i2cSlave THEN NoCmd ELSE arg, r.ptr, r.e1)>>,
      err |-> nil]

\* ioctl: the errno of the system call, as an error when it is not 0
ioctl(k, req, arg, e) ==
  LET r == Syscall6(k, req, arg, e)
  IN [k |-> r.k,
      ptr |-> r.ptr,
      calls |-> <<Entry(req, IF req = i2cSlave THEN arg ELSE 0,
                        k.sel,
                        IF req = i2cSlave THEN NoCmd ELSE arg, r.ptr, r.e1)>>,
      err |-> IF r.e1 # 0 THEN r.e1 ELSE nil]

\* Conn.addr handing the driver the 8-bit form of the address
addr8bit(k, a, e) == ioctl(k, i2cSlave, (2 * a) % 256, e)

\* Conn.addr
addr(k, a, e) == ioctl(k, i2cSlave, a, e)

\* the outcome of a handler: the kernel after it, the system calls it made,
\* the value and the buffer it hands back, a byte count, its error
Outcome(k, calls, out, obuf, n, err) ==
  [k |-> k, calls |-> calls, out |-> out, obuf |-> obuf, n |-> n, err |-> err]

\* ReadReg from "var v uint8" on
ReadRegIoctl(k, reg, e) ==
  LET cmd == i2cCmd(i2cSMBusRead, reg, i2cSMBusByteData, <<0>>)
      x == ioctl(k, i2cSMBus, cmd, e)
  IN Outcome(x.k, x.calls, x.ptr[1], <<>>, 0, x.err)

\* ReadReg without its c.addr(addr)
ReadRegNoSelect(k, a, reg, e1, e2) == ReadRegIoctl(k, reg, e2)

ReadReg(k, a, reg, e1, e2) ==
  LET s == addr(k, a, e1)
  IN IF s.err # nil THEN Outcome(s.k, s.calls, 0, <<>>, 0, s.err)
     ELSE LET x == ReadRegIoctl(s.k, reg, e2)
          IN [x EXCEPT !.calls = s.calls \o @]

\* WriteReg declaring a word for its one byte
WriteRegIoctlWordSize(k, reg, v, e) ==
  LET cmd == i2cCmd(i2cSMBusWrite, reg, i2cSMBusWordData, <<v>>)
      x == ioctl(k, i2cSMBus, cmd, e)
  IN Outcome(x.k, x.calls, 0, <<>>, 0, x.err)

\* WriteReg from the construction of cmd on
WriteRegIoctl(k, reg, v, e) ==
  LET cmd == i2cCmd(i2cSMBusWrite, reg, i2cSMBusByteData, <<v>>)
      x == ioctl(k, i2cSMBus, cmd, e)
  IN Outcome(x.k, x.calls, 0, <<>>, 0, x.err)

WriteReg(k, a, reg, v, e1, e2) ==
  LET s == addr(k, a, e1)
  IN IF s.err # nil THEN Outcome(s.k, s.calls, 0, <<>>, 0, s.err)
     ELSE LET x == WriteRegIoctl(s.k, reg, v, e2)
          IN [x EXCEPT !.calls = s.calls \o @]

\* ReadWord handing back the word with its two bytes exchanged
ReadWordIoctlSwapped(k, reg, e) ==
  LET cmd == i2cCmd(i2cSMBusRead, reg, i2cSMBusWordData, <<0>>)
      x == ioctl(k, i2cSMBus, cmd, e)
  IN Outcome(x.k, x.calls, (x.ptr[1] % 256) * 256 + x.ptr[1] \div 256, <<>>, 0, x.err)

\* ReadWord from "var v uint16" on
ReadWordIoctl(k, reg, e) ==
  LET cmd == i2cCmd(i2cSMBusRead, reg, i2cSMBusWordData, <<0>>)
      x == ioctl(k, i2cSMBus, cmd, e)
  IN Outcome(x.k, x.calls, x.ptr[1], <<>>, 0, x.err)

ReadWord(k, a, reg, e1, e2) ==
  LET s == addr(k, a, e1)
  IN IF s.err # nil THEN Outcome(s.k, s.calls, 0, <<>>, 0, s.err)
     ELSE LET x == ReadWordIoctl(s.k, reg, e2)
          IN [x EXCEPT !.calls = s.calls \o @]

\* WriteWord from the construction of cmd on
WriteWordIoctl(k, reg, v, e) ==
  LET cmd == i2cCmd(i2cSMBusWrite, reg, i2cSMBusWordData, <<v>>)
      x == ioctl(k, i2cSMBus, cmd, e)
  IN Outcome(x.k, x.calls, 0, <<>>, 0, x.err)

\* WriteWord going on to its transaction whatever c.addr returned
WriteWordIgnoresAddrErr(k, a, reg, v, e1, e2) ==
  LET s == addr(k, a, e1)
      x == WriteWordIoctl(s.k, reg, v, e2)
  IN [x EXCEPT !.calls = s.calls \o @]

WriteWord(k, a, reg, v, e1, e2) ==
  LET s == addr(k, a, e1)
  IN IF s.err # nil THEN Outcome(s.k, s.calls, 0, <<>>, 0, s.err)
     ELSE LET x == WriteWordIoctl(s.k, reg, v, e2)
          IN [x EXCEPT !.calls = s.calls \o @]

\* the length check off by one
TooBigOffByOne(buf) == Len(buf) > i2cSMBusBlockMax + 1

\* the length check that opens ReadBlockData and WriteBlockData
TooBig(buf) == Len(buf) > i2cSMBusBlockMax

\* ReadBlockData copying one byte too few: the last byte of buf keeps its value
ReadBlockDataIoctlShortCopy(k, reg, buf, e) ==
  LET data == <<Len(buf) % 256>> \o Zeros(Len(buf))
      cmd == i2cCmd(i2cSMBusRead, reg, i2cSMBusI2CBlockData, data)
      x == ioctl(k, i2cSMBus, cmd, e)
  IN IF x.err # nil THEN Outcome(x.k, x.calls, 0, buf, 0, x.err)
     ELSE Outcome(x.k, x.calls, 0,
                  [i \in 1..Len(buf) |-> IF i < Len(buf) THEN x.ptr[i + 1] ELSE buf[i]], 0, nil)

\* ReadBlockData copying out from data[0] on, the length byte first
ReadBlockDataIoctlFromZero(k, reg, buf, e) ==
  LET data == <<Len(buf) % 256>> \o Zeros(Len(buf))
      cmd == i2cCmd(i2cSMBusRead, reg, i2cSMBusI2CBlockData, data)
      x == ioctl(k, i2cSMBus, cmd, e)
  IN IF x.err # nil THEN Outcome(x.k, x.calls, 0, buf, 0, x.err)
     ELSE Outcome(x.k, x.calls, 0, SubSeq(x.ptr, 1, Len(buf)), 0, nil)

\* ReadBlockData copying data[1:] into buf before it looks at the error
ReadBlockDataIoctlCopiesOnError(k, reg, buf, e) ==
  LET data == <<Len(buf) % 256>> \o Zeros(Len(buf))
      cmd == i2cCmd(i2cSMBusRead, reg, i2cSMBusI2CBlockData, data)
      x == ioctl(k, i2cSMBus, cmd, e)
  IN Outcome(x.k, x.calls, 0, SubSeq(x.ptr, 2, Len(buf) + 1), 0, x.err)

\* ReadBlockData from "data := make" on
ReadBlockDataIoctl(k, reg, buf, e) ==
  LET data == <<Len(buf) % 256>> \o Zeros(Len(buf))
      cmd == i2cCmd(i2cSMBusRead, reg, i2cSMBusI2CBlockData, data)
      x == ioctl(k, i2cSMBus, cmd, e)
  IN IF x.err # nil THEN Outcome(x.k, x.calls, 0, buf, 0, x.err)
     ELSE Outcome(x.k, x.calls, 0, SubSeq(x.ptr, 2, Len(buf) + 1), 0, nil)

\* ReadBlockData without its length check
ReadBlockDataNoCheck(k, a, reg, buf, e1, e2) ==
  LET s == addr(k, a, e1)
  IN IF s.err # nil THEN Outcome(s.k, s.calls, 0, buf, 0, s.err)
     ELSE LET x == ReadBlockDataIoctl(s.k, reg, buf, e2)
          IN [x EXCEPT !.calls = s.calls \o @]

ReadBlockData(k, a, reg, buf, e1, e2) ==
  IF TooBig(buf) THEN Outcome(k, <<>>, 0, buf, 0, errSMBusBlockDataMax)
  ELSE LET s == addr(k, a, e1)
       IN IF s.err # nil THEN Outcome(s.k, s.calls, 0, buf, 0, s.err)
          ELSE LET x == ReadBlockDataIoctl(s.k, reg, buf, e2)
               IN [x EXCEPT !.calls = s.calls \o @]

\* WriteBlockData whose length byte counts the length byte too
WriteBlockDataIoctlCountsPrefix(k, reg, buf, e) ==
  LET data == <<(Len(buf) + 1) % 256>> \o buf
      cmd == i2cCmd(i2cSMBusWrite, reg, i2cSMBusI2CBlockData, data)
      x == ioctl(k, i2cSMBus, cmd, e)
  IN Outcome(x.k, x.calls, 0, buf, 0, x.err)

\* WriteBlockData from "data := make" on
WriteBlockDataIoctl(k, reg, buf, e) ==
  LET data == <<Len(buf) % 256>> \o buf
      cmd == i2cCmd(i2cSMBusWrite, reg, i2cSMBusI2CBlockData, data)
      x == ioctl(k, i2cSMBus, cmd, e)
  IN Outcome(x.k, x.calls, 0, buf, 0, x.err)

WriteBlockData(k, a, reg, buf, e1, e2) ==
  IF TooBig(buf) THEN Outcome(k, <<>>, 0, buf, 0, errSMBusBlockDataMax)
  ELSE LET s == addr(k, a, e1)
       IN IF s.err # nil THEN Outcome(s.k, s.calls, 0, buf, 0, s.err)
          ELSE LET x == WriteBlockDataIoctl(s.k, reg, buf, e2)
               IN [x EXCEPT !.calls = s.calls \o @]

SetAddr(k, a, e) ==
  LET s == addr(k, a, e)
  IN Outcome(s.k, s.calls, 0, <<>>, 0, s.err)

\* Conn.Write on a File that does not refuse to write once closed
WriteUnchecked(k, buf, e) ==
  LET r == FileWrite(k, buf, e)
  IN Outcome(r.k, <<Entry(sysWrite, 0, k.sel, [NoCmd EXCEPT !.ptr = buf], r.ptr, r.e1)>>,
             0, buf, r.n, IF r.e1 # 0 THEN r.e1 ELSE nil)

\* Conn.Write: File.Write refuses a closed file before any system call
Write(k, buf, e) ==
  IF k.fd # "open" THEN Outcome(k, <<>>, 0, buf, 0, ErrClosed)
  ELSE LET r == FileWrite(k, buf, e)
       IN Outcome(r.k, <<Entry(sysWrite, 0, k.sel, [NoCmd EXCEPT !.ptr = buf], r.ptr, r.e1)>>,
                  0, buf, r.n, IF r.e1 # 0 THEN r.e1 ELSE nil)

WriteByte(k, b, e) == Write(k, <<b>>, e)

Read(k, p, e) ==
  IF k.fd # "open" THEN Outcome(k, <<>>, 0, p, 0, ErrClosed)
  ELSE LET r == FileRead(k, p, e)
       IN Outcome(r.k, <<Entry(sysRead, 0, k.sel, [NoCmd EXCEPT !.ptr = p], r.ptr, r.e1)>>,
                  0, r.ptr, r.n, IF r.e1 # 0 THEN r.e1 ELSE nil)

\* os.OpenFile of /dev/i2c-<bus>: the errno, 0 when the file opens
OsOpenFile(bus, eo) == IF bus \notin Present THEN ENOENT ELSE eo

\* a descriptor as open(2) returns it: nothing selected
Fresh(k) == [k EXCEPT !.fd = "open", !.sel = NoAddr]
\* no Conn came back: the caller holds nil
NoConn(k) == [k EXCEPT !.fd = "none", !.sel = NoAddr]

\* OpenFile handing back a Conn together with the error
OpenFileKeepsConn(k, bus, eo) ==
  IF OsOpenFile(bus, eo) # 0
  THEN Outcome(Fresh(k), <<>>, 1, <<>>, 1, OsOpenFile(bus, eo))
  ELSE Outcome(Fresh(k), <<>>, 1, <<>>, 1, nil)

\* OpenFile; out is 1 when a Conn is returned, n counts the descriptors it leaves open
OpenFile(k, bus, eo) ==
  IF OsOpenFile(bus, eo) # 0
  THEN Outcome(NoConn(k), <<>>, 0, <<>>, 0, OsOpenFile(bus, eo))
  ELSE Outcome(Fresh(k), <<>>, 1, <<>>, 1, nil)

\* Open without its ioctl(f.Fd(), i2cSlave, addr)
OpenNoSelect(k, bus, a, eo, e1) == OpenFile(k, bus, eo)

\* Open: on a rejected select it returns nil and the error; f is not closed
Open(k, bus, a, eo, e1) ==
  IF OsOpenFile(bus, eo) # 0
  THEN Outcome(NoConn(k), <<>>, 0, <<>>, 0, OsOpenFile(bus, eo))
  ELSE LET s == ioctl(Fresh(k), i2cSlave, a, e1)
       IN IF s.err # nil THEN Outcome(NoConn(s.k), s.calls, 0, <<>>, 1, s.err)
          ELSE Outcome(s.k, s.calls, 1, <<>>, 1, nil)

\* Close; n counts the descriptors it releases
Close(k) ==
  IF k.fd = "open" THEN Outcome([k EXCEPT !.fd = "closed"], <<>>, 0, <<>>, 1, nil)
  ELSE Outcome(k, <<>>, 0, <<>>, 0, ErrClosed)

\* ------------------------------------------------------------ state
NoCall ==
  [op |-> "none", a |-> NoAddr, reg |-> 0, val |-> 0, buf |-> <<>>,
   calls |-> <<>>, out |-> 0, obuf |-> <<>>, n |-> 0, err |-> nil]

\* a call that returned: its arguments and its outcome
Returned(op, a, reg, val, buf, o) ==
  [op |-> op, a |-> a, reg |-> reg, val |-> val, buf |-> buf,
   calls |-> o.calls, out |-> o.out, obuf |-> o.obuf, n |-> o.n, err |-> o.err]

Idle == [pc |-> "idle", op |-> "none", a |-> NoAddr, reg |-> 0, val |-> 0,
         buf |-> <<>>, calls |-> <<>>]

NoMem == [a \in Addrs |-> [r \in Regs |-> <<>>]]

\* the caller of the TSL2591 driver holds no Device
NoDev == [addr |-> NoAddr, integ |-> 0, gain |-> 0]

\* the address a call selected with success, else the one selected before
Selects(r, w) ==
  IF r.calls # <<>> /\ r.calls[1].req = i2cSlave /\ r.calls[1].errno = 0 THEN r.a ELSE w

Init ==
  /\ kern = [fd |-> "none", sel |-> NoAddr, mem |-> NoMem]
  /\ fds = 0
  /\ want = NoAddr
  /\ ret = [t \in Threads |-> NoCall]
  /\ frame = [t \in Threads |-> Idle]
  /\ mutex = "free"
  /\ dev = NoDev

\* thread t's call returns r and leaves the kernel as k2
Complete(t, r, k2) ==
  /\ kern' = k2
  /\ ret' = [ret EXCEPT ![t] = r]
  /\ want' = Selects(r, want)

\* ------------------------------------------------------------ one caller
MainOpenFile ==
  /\ kern.fd \in {"none", "closed"}
  /\ fds < MaxFds
  /\ \E bus \in Buses, eo \in OpenOutcomes :
       LET o == OpenFile(kern, bus, eo)
       IN /\ kern' = o.k
          /\ ret' = [ret EXCEPT !["main"] = Returned("OpenFile", NoAddr, 0, bus, <<>>, o)]
          /\ want' = NoAddr
          /\ fds' = fds + o.n
  /\ UNCHANGED <<frame, mutex, dev>>

MainOpen ==
  /\ kern.fd \in {"none", "closed"}
  /\ fds < MaxFds
  /\ \E bus \in Buses, a \in Addrs, eo \in OpenOutcomes, e1 \in SelectOutcomes :
       LET o == Open(kern, bus, a, eo, e1)
       IN /\ kern' = o.k
          /\ ret' = [ret EXCEPT !["main"] = Returned("Open", a, 0, bus, <<>>, o)]
          /\ want' = IF o.out = 1 THEN a ELSE NoAddr
          /\ fds' = fds + o.n
  /\ UNCHANGED <<frame, mutex, dev>>

MainClose ==
  /\ kern.fd # "none"
  /\ LET o == Close(kern)
     IN /\ Complete("main", Returned("Close", NoAddr, 0, 0, <<>>, o), o.k)
        /\ fds' = fds - o.n
  /\ UNCHANGED <<frame, mutex, dev>>

\* the finalizer of an os.File nothing refers to any more closes its descriptor
Finalizer ==
  /\ fds > (IF kern.fd = "open" THEN 1 ELSE 0)
  /\ fds' = fds - 1
  /\ UNCHANGED <<kern, want, ret, frame, mutex, dev>>

MainSetAddr ==
  /\ kern.fd # "none"
  /\ \E a \in Addrs, e \in SelectOutcomes :
       LET o == SetAddr(kern, a, e)
       IN Complete("main", Returned("SetAddr", a, 0, 0, <<>>, o), o.k)
  /\ UNCHANGED <<fds, frame, mutex, dev>>

MainReadReg ==
  /\ kern.fd # "none"
  /\ \E a \in Addrs, reg \in Regs, e \in RegOutcomes :
       LET o == ReadReg(kern, a, reg, e[1], e[2])
       IN Complete("main", Returned("ReadReg", a, reg, 0, <<>>, o), o.k)
  /\ UNCHANGED <<fds, frame, mutex, dev>>

MainWriteReg ==
  /\ kern.fd # "none"
  /\ \E a \in Addrs, reg \in WriteRegs, v \in ByteVals, e \in RegOutcomes :
       LET o == WriteReg(kern, a, reg, v, e[1], e[2])
       IN Complete("main", Returned("WriteReg", a, reg, v, <<>>, o), o.k)
  /\ UNCHANGED <<fds, frame, mutex, dev>>

MainReadWord ==
  /\ kern.fd # "none"
  /\ \E a \in Addrs, reg \in Regs, e \in RegOutcomes :
       LET o == ReadWord(kern, a, reg, e[1], e[2])
       IN Complete("main", Returned("ReadWord", a, reg, 0, <<>>, o), o.k)
  /\ UNCHANGED <<fds, frame, mutex, dev>>

MainWriteWord ==
  /\ kern.fd # "none"
  /\ \E a \in Addrs, reg \in WriteRegs, v \in WordVals, e \in RegOutcomes :
       LET o == WriteWord(kern, a, reg, v, e[1], e[2])
       IN Complete("main", Returned("WriteWord", a, reg, v, <<>>, o), o.k)
  /\ UNCHANGED <<fds, frame, mutex, dev>>

MainReadBlockData ==
  /\ kern.fd # "none"
  /\ \E a \in Addrs, reg \in Regs, n \in Lens, e \in RegOutcomes :
       LET o == ReadBlockData(kern, a, reg, Fill(n), e[1], e[2])
       IN Complete("main", Returned("ReadBlockData", a, reg, 0, Fill(n), o), o.k)
  /\ UNCHANGED <<fds, frame, mutex, dev>>

MainWriteBlockData ==
  /\ kern.fd # "none"
  /\ \E a \in Addrs, reg \in WriteRegs, n \in Lens, e \in RegOutcomes :
       LET o == WriteBlockData(kern, a, reg, Payload(n), e[1], e[2])
       IN Complete("main", Returned("WriteBlockData", a, reg, 0, Payload(n), o), o.k)
  /\ UNCHANGED <<fds, frame, mutex, dev>>

MainWrite ==
  /\ kern.fd # "none"
  /\ \E buf \in {<<32, 75>>}, e \in XferOutcomes :
       LET o == Write(kern, buf, e)
       IN Complete("main", Returned("Write", NoAddr, 0, 0, buf, o), o.k)
  /\ UNCHANGED <<fds, frame, mutex, dev>>

MainWriteByte ==
  /\ kern.fd # "none"
  /\ \E b \in Regs, e \in XferOutcomes :
       LET o == WriteByte(kern, b, e)
       IN Complete("main", Returned("WriteByte", NoAddr, 0, b, <<b>>, o), o.k)
  /\ UNCHANGED <<fds, frame, mutex, dev>>

MainRead ==
  /\ kern.fd # "none"
  /\ \E e \in XferOutcomes :
       LET o == Read(kern, Fill(2), e)
       IN Complete("main", Returned("Read", NoAddr, 0, 0, Fill(2), o), o.k)
  /\ UNCHANGED <<fds, frame, mutex, dev>>

Next ==
  \/ MainOpenFile \/ MainOpen \/ MainClose \/ Finalizer \/ MainSetAddr
  \/ MainReadReg \/ MainWriteReg \/ MainReadWord \/ MainWriteWord
  \/ MainReadBlockData \/ MainWriteBlockData
  \/ MainWrite \/ MainWriteByte \/ MainRead

Spec == Init /\ [][Next]_vars

\* ------------------------------------------------------------ a shared Conn
\* two goroutines call register operations on one Conn; a call is in flight
\* between its select and its transaction
RegOps == {"ReadReg", "WriteReg", "ReadWord", "WriteWord", "ReadBlockData", "WriteBlockData"}

\* worker A talks to the device at 0x44, worker B to the one at 0x50
WorkAddr(t) == IF t = "A" THEN 68 ELSE 80
WorkXferOutcomes == {0, EIO}

\* the value and the buffer a worker passes to op
WorkVal(op) == IF op = "WriteReg" THEN 222 ELSE IF op = "WriteWord" THEN 48879 ELSE 0
WorkBuf(op) ==
  IF op = "ReadBlockData" THEN Fill(4)
  ELSE IF op = "WriteBlockData" THEN Payload(4) ELSE <<>>

\* the Conn the workers share: OpenFile(0) returned it
InitShared ==
  /\ kern = [fd |-> "open", sel |-> NoAddr, mem |-> NoMem]
  /\ fds = 1
  /\ want = NoAddr
  /\ ret = [t \in Threads |-> NoCall]
  /\ frame = [t \in Threads |-> Idle]
  /\ mutex = "free"
  /\ dev = NoDev

\* a register operation that selects only when nothing is selected yet
RegOpAddrCached(k, op, a, buf, e) ==
  IF op \in {"ReadBlockData", "WriteBlockData"} /\ TooBig(buf)
  THEN [k |-> k, calls |-> <<>>, err |-> errSMBusBlockDataMax]
  ELSE IF k.sel # NoAddr THEN [k |-> k, calls |-> <<>>, err |-> nil]
  ELSE LET s == addr(k, a, e) IN [k |-> s.k, calls |-> s.calls, err |-> s.err]

\* a register operation up to and including c.addr(addr)
RegOpAddr(k, op, a, buf, e) ==
  IF op \in {"ReadBlockData", "WriteBlockData"} /\ TooBig(buf)
  THEN [k |-> k, calls |-> <<>>, err |-> errSMBusBlockDataMax]
  ELSE LET s == addr(k, a, e) IN [k |-> s.k, calls |-> s.calls, err |-> s.err]

\* a register operation after c.addr(addr) returned nil
RegOpIoctl(k, op, reg, v, buf, e) ==
  CASE op = "ReadReg" -> ReadRegIoctl(k, reg, e)
    [] op = "WriteReg" -> WriteRegIoctl(k, reg, v, e)
    [] op = "ReadWord" -> ReadWordIoctl(k, reg, e)
    [] op = "WriteWord" -> WriteWordIoctl(k, reg, v, e)
    [] op = "ReadBlockData" -> ReadBlockDataIoctl(k, reg, buf, e)
    [] op = "WriteBlockData" -> WriteBlockDataIoctl(k, reg, buf, e)

\* t enters a register operation and runs it through its select
WorkerAddr(t) ==
  /\ frame[t].pc = "idle"
  /\ \E op \in RegOps, reg \in WriteRegs, e \in SelectOutcomes :
       LET a == WorkAddr(t)
           s == RegOpAddr(kern, op, a, WorkBuf(op), e)
       IN /\ kern' = s.k
          /\ want' = IF s.err = nil THEN a ELSE want
          /\ IF s.err # nil
             THEN /\ ret' = [ret EXCEPT ![t] =
                       Returned(op, a, reg, WorkVal(op), WorkBuf(op),
                                Outcome(s.k, s.calls, 0, WorkBuf(op), 0, s.err))]
                  /\ UNCHANGED frame
             ELSE /\ ret' = [ret EXCEPT ![t] = NoCall]
                  /\ frame' = [frame EXCEPT ![t] =
                       [pc |-> "ioctl", op |-> op, a |-> a, reg |-> reg, val |-> WorkVal(op),
                        buf |-> WorkBuf(op), calls |-> s.calls]]
  /\ UNCHANGED <<fds, mutex, dev>>

\* t selects its address again in the step of its transaction
WorkerIoctlReselect(t) ==
  /\ frame[t].pc = "ioctl"
  /\ \E e \in WorkXferOutcomes :
       LET f == frame[t]
           x == RegOpIoctl(addr(kern, f.a, 0).k, f.op, f.reg, f.val, f.buf, e)
       IN /\ kern' = x.k
          /\ ret' = [ret EXCEPT ![t] =
               Returned(f.op, f.a, f.reg, f.val, f.buf, [x EXCEPT !.calls = f.calls \o @])]
          /\ frame' = [frame EXCEPT ![t] = Idle]
  /\ UNCHANGED <<fds, want, mutex, dev>>

\* t issues the transaction of the operation it is in and returns
WorkerIoctl(t) ==
  /\ frame[t].pc = "ioctl"
  /\ \E e \in WorkXferOutcomes :
       LET f == frame[t]
           x == RegOpIoctl(kern, f.op, f.reg, f.val, f.buf, e)
       IN /\ kern' = x.k
          /\ ret' = [ret EXCEPT ![t] =
               Returned(f.op, f.a, f.reg, f.val, f.buf, [x EXCEPT !.calls = f.calls \o @])]
          /\ frame' = [frame EXCEPT ![t] = Idle]
  /\ UNCHANGED <<fds, want, mutex, dev>>

NextShared == \E t \in Workers : WorkerAddr(t) \/ WorkerIoctl(t)

SpecShared == InitShared /\ [][NextShared]_vars

\* the callers' discipline of section 5: one mutex held from before the select
\* until the operation has returned
Lock(t) ==
  /\ mutex = "free"
  /\ frame[t].pc = "idle"
  /\ mutex' = t
  /\ ret' = [ret EXCEPT ![t] = NoCall]
  /\ UNCHANGED <<kern, fds, want, frame, dev>>

Unlock(t) ==
  /\ mutex = t
  /\ frame[t].pc = "idle"
  /\ ret[t].op # "none"
  /\ mutex' = "free"
  /\ UNCHANGED <<kern, fds, want, ret, frame, dev>>

LockedAddr(t) == mutex = t /\ ret[t].op = "none" /\ WorkerAddr(t)

LockedIoctl(t) == mutex = t /\ WorkerIoctl(t)

NextLocked == \E t \in Workers : Lock(t) \/ LockedAddr(t) \/ LockedIoctl(t) \/ Unlock(t)

SpecLocked == InitShared /\ [][NextLocked]_vars

\* ------------------------------------------------------------ the TSL2591 driver
\* package tsl2591: a Device holds a Conn, the sensor's address and the timing
\* and gain it was given; every operation is a sequence of WriteReg and
\* ReadWord calls on the Conn
Addr == 41
CmdBit == 160
EnablePowerON == 1
EnablePowerOFF == 0
EnableAEN == 2
EnableAIEN == 16
RegEnable == 0
RegControl == 1
RegChan0Low == 20
RegChan1Low == 22

\* IntegTime100ms, IntegTime300ms; GainMed, GainHigh
IntegTimes == {0, 2}
Gains == {16, 32}
\* what the two channels of the sensor may hold
Lights == {<<>>, <<52, 18>>}

\* a | b on uint8
RECURSIVE BitOr(_, _)
BitOr(a, b) ==
  IF a = 0 THEN b
  ELSE IF b = 0 THEN a
  ELSE (IF a % 2 = 1 \/ b % 2 = 1 THEN 1 ELSE 0) + 2 * BitOr(a \div 2, b \div 2)

\* the registers of the sensor on the bus
TSLRegs ==
  {BitOr(CmdBit, RegEnable), BitOr(CmdBit, RegControl),
   BitOr(CmdBit, RegChan0Low), BitOr(CmdBit, RegChan1Low)}
TSLMem == [a \in {Addr} |-> [r \in TSLRegs |-> <<>>]]

\* how the driver may answer the n register calls of an operation: all of
\* them accepted (i = 0), or call i refused, at its select or its transaction
Refusals == {<<EBUSY, 0>>, <<0, EIO>>}
FailAt(n, i, how) == [j \in 1..n |-> IF j = i THEN how ELSE <<0, 0>>]

\* what a step of the driver hands on: the kernel, the Device, the system
\* calls so far, its error
Step(k, d, calls, err) == [k |-> k, d |-> d, calls |-> calls, err |-> err]

\* the one element of a set; in { f(x) : x \in {e} } x names the value of e,
\* a result of a call that the lines after it use
Only(S) == CHOOSE x \in S : TRUE

enable(k, d, e) ==
  WriteReg(k, d.addr, BitOr(CmdBit, RegEnable),
           BitOr(BitOr(EnablePowerON, EnableAEN), EnableAIEN), e[1], e[2])

disable(k, d, e) ==
  WriteReg(k, d.addr, BitOr(CmdBit, RegEnable), EnablePowerOFF, e[1], e[2])

\* setTiming; es are the answers to its three WriteReg calls
setTiming(k, d, integ, es) ==
  Only({ IF en.err # nil THEN Step(en.k, d, en.calls, en.err)
         ELSE Only({
           IF w.err # nil THEN Step(w.k, [d EXCEPT !.integ = integ], en.calls \o w.calls, w.err)
           ELSE Only({ Step(di.k, [d EXCEPT !.integ = integ],
                            en.calls \o w.calls \o di.calls, di.err)
                       : di \in {disable(w.k, [d EXCEPT !.integ = integ], es[3])} })
           : w \in {WriteReg(en.k, d.addr, BitOr(CmdBit, RegControl),
                             BitOr(integ, d.gain), es[2][1], es[2][2])} })
         : en \in {enable(k, d, es[1])} })

\* setGain; es are the answers to its three WriteReg calls
setGain(k, d, gain, es) ==
  Only({ IF en.err # nil THEN Step(en.k, d, en.calls, en.err)
         ELSE Only({
           IF w.err # nil THEN Step(w.k, [d EXCEPT !.gain = gain], en.calls \o w.calls, w.err)
           ELSE Only({ Step(di.k, [d EXCEPT !.gain = gain],
                            en.calls \o w.calls \o di.calls, di.err)
                       : di \in {disable(w.k, [d EXCEPT !.gain = gain], es[3])} })
           : w \in {WriteReg(en.k, d.addr, BitOr(CmdBit, RegControl),
                             BitOr(d.integ, gain), es[2][1], es[2][2])} })
         : en \in {enable(k, d, es[1])} })

\* tsl2591.Open; es are the answers to its seven WriteReg calls; the Device
\* handed back is NoDev (nil) with an error
tsl2591Open(k, a, integ, gain, es) ==
  Only({ IF t.err # nil THEN Step(t.k, NoDev, t.calls, t.err)
         ELSE Only({
           IF g.err # nil THEN Step(g.k, NoDev, t.calls \o g.calls, g.err)
           ELSE Only({ Step(di.k, IF di.err # nil THEN NoDev ELSE g.d,
                            t.calls \o g.calls \o di.calls, di.err)
                       : di \in {disable(g.k, g.d, es[7])} })
           : g \in {setGain(t.k, t.d, gain, SubSeq(es, 4, 6))} })
         : t \in {setTiming(k, [addr |-> a, integ |-> 0, gain |-> 0], integ, SubSeq(es, 1, 3))} })

\* Device.FullLuminosity; es are the answers to its four register calls; obuf
\* is <<full, ir>>
FullLuminosity(k, d, es) ==
  Only({ IF en.err # nil THEN Outcome(en.k, en.calls, 0, <<0, 0>>, 0, en.err)
         ELSE Only({
           IF full.err # nil
           THEN Outcome(full.k, en.calls \o full.calls, 0, <<0, 0>>, 0, full.err)
           ELSE Only({
             IF ir.err # nil
             THEN Outcome(ir.k, en.calls \o full.calls \o ir.calls, 0, <<0, 0>>, 0, ir.err)
             ELSE Only({ Outcome(di.k, en.calls \o full.calls \o ir.calls \o di.calls, 0,
                                 IF di.err # nil THEN <<0, 0>> ELSE <<full.out, ir.out>>,
                                 0, di.err)
                         : di \in {disable(ir.k, d, es[4])} })
             : ir \in {ReadWord(full.k, d.addr, BitOr(CmdBit, RegChan1Low), es[3][1], es[3][2])} })
           : full \in {ReadWord(en.k, d.addr, BitOr(CmdBit, RegChan0Low), es[2][1], es[2][2])} })
         : en \in {enable(k, d, es[1])} })

\* the caller opened the bus with OpenFile and holds no Device yet
InitTSL ==
  /\ kern = [fd |-> "open", sel |-> NoAddr, mem |-> TSLMem]
  /\ fds = 1
  /\ want = NoAddr
  /\ ret = [t \in Threads |-> NoCall]
  /\ frame = [t \in Threads |-> Idle]
  /\ mutex = "free"
  /\ dev = NoDev

\* the address selected once the calls were made
Selected(calls, w) ==
  IF \E i \in 1..Len(calls) : calls[i].req = i2cSlave /\ calls[i].errno = 0 THEN Addr ELSE w

DriverOpen ==
  /\ \E integ \in IntegTimes, gain \in Gains, i \in 0..7, how \in Refusals :
       \E o \in {tsl2591Open(kern, Addr, integ, gain, FailAt(7, i, how))} :
          /\ kern' = o.k
          /\ dev' = o.d
          /\ want' = Selected(o.calls, want)
          /\ ret' = [ret EXCEPT !["main"] =
               Returned("tsl2591.Open", Addr, integ, gain, <<>>,
                        Outcome(o.k, o.calls, 0, <<>>, 0, o.err))]
  /\ UNCHANGED <<fds, frame, mutex>>

DriverFullLuminosity ==
  /\ dev # NoDev
  /\ \E i \in 0..4, how \in Refusals :
       \E o \in {FullLuminosity(kern, dev, FailAt(4, i, how))} :
          /\ kern' = o.k
          /\ want' = Selected(o.calls, want)
          /\ ret' = [ret EXCEPT !["main"] =
               Returned("FullLuminosity", dev.addr, 0, 0, <<>>, o)]
  /\ UNCHANGED <<fds, frame, mutex, dev>>

\* the light on the sensor changes what its two channels hold
Light ==
  /\ \E c0 \in Lights, c1 \in Lights :
       kern' = [kern EXCEPT !.mem[Addr][BitOr(CmdBit, RegChan0Low)] = c0,
                            !.mem[Addr][BitOr(CmdBit, RegChan1Low)] = c1]
  /\ UNCHANGED <<fds, want, ret, frame, mutex, dev>>

NextTSL == DriverOpen \/ DriverFullLuminosity \/ Light

SpecTSL == InitTSL /\ [][NextTSL]_vars

\* ------------------------------------------------------------ properties
main == ret["main"]

IsBlockOp(r) == r.op \in {"ReadBlockData", "WriteBlockData"}
IsRegOp(r) == r.op \in RegOps
\* the entries of r that are transfers on the bus
Transfers(r) == {i \in 1..Len(r.calls) : r.calls[i].req \in {i2cSMBus, sysRead, sysWrite}}
SMBusCalls(r) == {i \in 1..Len(r.calls) : r.calls[i].req = i2cSMBus}

\* C1: a block operation handed more than 32 bytes returns errSMBusBlockDataMax
\* having made no system call at all (no select, no transaction), the caller's
\* buffer as it was; the step leaves the kernel, and so the selected address
\* of the handle, unchanged.
C1_TooBigNoIO ==
  [][(IsBlockOp(main') /\ Len(main'.buf) > 32)
       => /\ main'.err = errSMBusBlockDataMax
          /\ main'.calls = <<>>
          /\ main'.obuf = main'.buf
          /\ (main' # main => kern' = kern /\ want' = want)]_vars

\* ReadBlock(h, 0x50, 0x00, 33) on a handle that has 0x44 selected
C1_Witness ==
  /\ main.op = "ReadBlockData" /\ main.a = 80 /\ main.reg = 0 /\ Len(main.buf) = 33
  /\ main.err = errSMBusBlockDataMax
  /\ main.calls = <<>>
  /\ kern.fd = "open" /\ kern.sel = 68

\* C2: a register operation with a valid length makes exactly one select, first,
\* for its addr argument; when the driver accepts the select exactly one
\* I2C_SMBUS transaction follows, to that address and with the operation's
\* register, and nothing else; when it does not, the select is the only call.
C2_SelectThenTransact ==
  (IsRegOp(main) /\ Len(main.buf) <= 32) =>
     /\ Len(main.calls) >= 1
     /\ main.calls[1].req = i2cSlave
     /\ main.calls[1].arg = main.a
     /\ IF main.calls[1].errno = 0
        THEN /\ Len(main.calls) = 2
             /\ main.calls[2].req = i2cSMBus
             /\ main.calls[2].target = main.a
             /\ main.calls[2].cmd.cmd = main.reg
        ELSE Len(main.calls) = 1

\* OpenFile then ReadReg: the select arrives on a descriptor with nothing selected
C2_Witness ==
  /\ main.op = "ReadReg" /\ main.err = nil
  /\ Len(main.calls) = 2
  /\ main.calls[1].req = i2cSlave /\ main.calls[1].target = NoAddr /\ main.calls[1].arg = 68
  /\ main.calls[2].req = i2cSMBus /\ main.calls[2].target = 68

\* C3: with one caller, every transfer (the transaction of a register operation,
\* a raw Read, Write or WriteByte) goes to the address the caller selected last
\* with success, by SetAddr, Open or the select of a register operation.
C3_RoutedToLastSelected ==
  \A i \in Transfers(main) : main.calls[i].target = want

\* 0x44 was selected and written to, then 0x50 selected: a raw Write goes to 0x50
C3_Witness ==
  /\ main.op = "Write" /\ main.err = nil
  /\ Len(main.calls) = 1 /\ main.calls[1].req = sysWrite /\ main.calls[1].target = 80
  /\ kern.mem[68][32] # <<>>
  /\ want = 80

\* C4: on a Conn shared without a lock, the transaction of a call in flight is
\* the only system call it still makes and it goes to whatever address is
\* selected on the descriptor at that moment, whichever goroutine selected it;
\* the transport does not select again.
C4_SharedGoesToCurrentSelection ==
  [][\A t \in Workers :
       (frame[t].pc = "ioctl" /\ frame'[t].pc = "idle")
         => /\ Len(ret'[t].calls) = 2
            /\ ret'[t].calls[2].req = i2cSMBus
            /\ ret'[t].calls[2].target = kern.sel]_vars

\* A selected 0x44, B selected 0x50, A's WriteReg then wrote to the device at 0x50
C4_Witness ==
  /\ ret["A"].op = "WriteReg" /\ ret["A"].a = 68 /\ ret["A"].err = nil
  /\ Len(ret["A"].calls) = 2
  /\ ret["A"].calls[1].arg = 68 /\ ret["A"].calls[1].errno = 0
  /\ ret["A"].calls[2].target = 80
  /\ kern.mem[80][32] = <<222>>
  /\ kern.mem[68][32] = <<>>

\* C5: when every caller holds the mutex from before the select until the
\* operation returned, each transaction goes to the addr argument of its own call.
C5_LockedGoesToOwnAddr ==
  \A t \in Workers : \A i \in SMBusCalls(ret[t]) : ret[t].calls[i].target = ret[t].a

\* both workers have transacted, each with its own device, B after A
C5_Witness ==
  /\ ret["A"].err = nil /\ SMBusCalls(ret["A"]) = {2} /\ ret["A"].calls[2].target = 68
  /\ ret["B"].err = nil /\ SMBusCalls(ret["B"]) = {2} /\ ret["B"].calls[2].target = 80
  /\ ret["B"].calls[1].target = 68

\* C6: WriteBlockData of n bytes, 1 <= n <= 32, that succeeded, followed at once
\* by a ReadBlockData of n bytes at the same addr and reg that succeeds: the
\* read hands back the bytes written, in order (the devices store what is
\* written).
C6_BlockRoundTrip ==
  [][(/\ main.op = "WriteBlockData" /\ main.err = nil
      /\ Len(main.buf) >= 1 /\ Len(main.buf) <= 32
      /\ main'.op = "ReadBlockData" /\ main'.err = nil
      /\ main'.a = main.a /\ main'.reg = main.reg
      /\ Len(main'.buf) = Len(main.buf))
       => main'.obuf = main.buf]_vars

\* a 32-byte read at 0x50 handed back the 32 bytes of the payload
C6_Witness ==
  /\ main.op = "ReadBlockData" /\ main.err = nil /\ main.a = 80 /\ main.reg = 32
  /\ Len(main.buf) = 32
  /\ main.obuf = Payload(32)
  /\ main.obuf # main.buf

\* C7: for a payload of n <= 32 bytes the buffer WriteBlockData hands to the
\* kernel is n+1 bytes long, byte 0 is n and bytes 1..n are the payload in
\* order; the caller's slice is not modified.
C7_WriteWire ==
  (main.op = "WriteBlockData" /\ Len(main.buf) <= 32 /\ SMBusCalls(main) # {}) =>
     /\ SMBusCalls(main) = {2}
     /\ Len(main.calls[2].cmd.ptr) = Len(main.buf) + 1
     /\ main.calls[2].cmd.ptr[1] = Len(main.buf)
     /\ \A i \in 1..Len(main.buf) : main.calls[2].cmd.ptr[i + 1] = main.buf[i]
     /\ main.obuf = main.buf

\* WriteBlock(h, 0x50, reg, [0xDE,0xAD,0xBE,0xEF]): 5 bytes on the wire, 0x04 first
C7_Witness ==
  /\ main.op = "WriteBlockData" /\ main.err = nil /\ main.a = 80
  /\ main.buf = <<222, 173, 190, 239>>
  /\ main.calls[2].cmd.ptr = <<4, 222, 173, 190, 239>>
  /\ kern.mem[80][32] = <<222, 173, 190, 239>>

\* C8: a ReadBlockData of n bytes that succeeds hands back exactly n bytes, byte
\* i being byte i+1 of the transfer buffer as the kernel left it; the transfer
\* buffer is n+1 bytes long, its byte 0 is the length and is not handed back.
C8_ReadWire ==
  (main.op = "ReadBlockData" /\ main.err = nil) =>
     /\ SMBusCalls(main) = {2}
     /\ Len(main.obuf) = Len(main.buf)
     /\ Len(main.calls[2].cmd.ptr) = Len(main.buf) + 1
     /\ Len(main.calls[2].res) = Len(main.buf) + 1
     /\ main.calls[2].res[1] = Len(main.buf)
     /\ \A i \in 1..Len(main.buf) : main.obuf[i] = main.calls[2].res[i + 1]

\* a 4-byte read of a register holding DE AD BE EF: the wire holds 04 DE AD BE EF
C8_Witness ==
  /\ main.op = "ReadBlockData" /\ main.err = nil
  /\ main.calls[2].res = <<4, 222, 173, 190, 239>>
  /\ main.obuf = <<222, 173, 190, 239>>

\* C9 as claimed: the length byte of every block transaction equals the length
\* of the caller's buffer and lies between 1 and 32.
C9_LengthByteFrom1To32 ==
  IsBlockOp(main) =>
     \A i \in SMBusCalls(main) :
        /\ main.calls[i].cmd.ptr[1] = Len(main.buf)
        /\ main.calls[i].cmd.ptr[1] >= 1
        /\ main.calls[i].cmd.ptr[1] <= 32

\* C9: the length byte of every block transaction equals the length of the
\* caller's buffer and lies between 0 and 32: it is never above 32, and it is 0
\* when the caller passes an empty buffer, which the transport does not refuse.
C9_LengthByteUpTo32 ==
  IsBlockOp(main) =>
     \A i \in SMBusCalls(main) :
        /\ main.calls[i].cmd.len = i2cSMBusI2CBlockData
        /\ main.calls[i].cmd.ptr[1] = Len(main.buf)
        /\ main.calls[i].cmd.ptr[1] >= 0
        /\ main.calls[i].cmd.ptr[1] <= 32

\* a ReadBlockData with an empty buffer reached the kernel with length byte 0
C9_Witness ==
  /\ main.op = "ReadBlockData" /\ main.buf = <<>> /\ main.err = nil
  /\ SMBusCalls(main) = {2}
  /\ main.calls[2].cmd.ptr = <<0>>
  /\ main.calls[2].errno = 0

\* C10: when the kernel rejects the transaction of a register operation, the
\* call returns that errno as its error, so not nil, and it has made exactly
\* one transaction: it does not try again.
C10_TransactionErrorReturned ==
  IsRegOp(main) =>
     \A i \in SMBusCalls(main) :
        main.calls[i].errno # 0 =>
           /\ main.err = main.calls[i].errno
           /\ main.err # nil
           /\ SMBusCalls(main) = {i}

\* a ReadWord whose transaction the device did not acknowledge
C10_Witness ==
  /\ main.op = "ReadWord" /\ main.err = ENXIO
  /\ SMBusCalls(main) = {2}
  /\ main.calls[2].errno = ENXIO
  /\ main.out = 0

\* C11: once Close has been called on a handle, every later call on it (SetAddr,
\* a register or block operation, a raw Read, Write or WriteByte, a second
\* Close) returns an error; the only system calls it makes are selects the
\* kernel refuses with EBADF, none is a transfer, and the selected address
\* and the devices' registers stay as they were.
C11_ClosedHandleFails ==
  [][(kern.fd = "closed" /\ kern'.fd = "closed" /\ main' # main)
       => /\ main'.err # nil
          /\ Transfers(main') = {}
          /\ \A i \in 1..Len(main'.calls) :
                main'.calls[i].req = i2cSlave /\ main'.calls[i].errno = EBADF
          /\ kern' = kern]_vars

\* a ReadReg on a closed handle: its select got EBADF; the device keeps what
\* was written to it before the Close
C11_Witness ==
  /\ kern.fd = "closed"
  /\ main.op = "ReadReg" /\ main.err = EBADF /\ main.out = 0
  /\ Len(main.calls) = 1 /\ main.calls[1].req = i2cSlave /\ main.calls[1].errno = EBADF
  /\ kern.mem[68][32] = <<222>>

IsOpen(r) == r.op \in {"OpenFile", "Open"}

\* C12: OpenFile(bus) and Open(bus, addr) of a bus whose device file does not
\* exist (ENOENT) or cannot be opened (EACCES) return that error and nil: no
\* Conn, no descriptor left open, and no system call on the bus, select or
\* transaction.
C12_OpenFailsNoHandle ==
  (IsOpen(main) /\ (main.val \notin Present \/ main.err \in {ENOENT, EACCES})) =>
     /\ main.err = (IF main.val \notin Present THEN ENOENT ELSE EACCES)
     /\ main.out = 0
     /\ main.n = 0
     /\ main.calls = <<>>
     /\ kern.fd = "none"

\* Open(7, 0x50): /dev/i2c-7 does not exist
C12_Witness ==
  /\ main.op = "Open" /\ main.val = 7 /\ main.a = 80
  /\ main.err = ENOENT /\ main.out = 0 /\ main.calls = <<>>
  /\ kern.fd = "none" /\ fds = 0

\* C13: OpenFile that succeeds makes no select and returns a handle with no
\* address selected; Open(bus, addr) that succeeds made exactly one select,
\* of addr, on the fresh descriptor, and returns a handle whose selected
\* address is addr.  An open handle has nothing selected until the caller's
\* first accepted select.
C13_SelectedAfterOpen ==
  /\ (main.op = "OpenFile" /\ main.err = nil) =>
        main.calls = <<>> /\ kern.fd = "open" /\ kern.sel = NoAddr
  /\ (main.op = "Open" /\ main.err = nil) =>
        /\ Len(main.calls) = 1
        /\ main.calls[1].req = i2cSlave /\ main.calls[1].arg = main.a
        /\ main.calls[1].target = NoAddr
        /\ kern.fd = "open" /\ kern.sel = main.a
  /\ (kern.fd = "open" /\ want = NoAddr) => kern.sel = NoAddr

\* Open(0, 0x50) returned a handle with 0x50 selected, after an earlier handle
\* that had 0x44 selected was closed
C13_Witness ==
  /\ main.op = "Open" /\ main.val = 0 /\ main.a = 80 /\ main.err = nil /\ main.out = 1
  /\ main.calls[1].target = NoAddr
  /\ kern.fd = "open" /\ kern.sel = 80
  /\ kern.mem[68][32] # <<>>

\* C14: WriteReg that succeeded followed at once by a ReadReg at the same addr
\* and reg that succeeds: the read returns the byte written.  WriteWord then
\* ReadWord likewise returns the 16-bit value written; the device holds its
\* low byte first, as the kernel put it on the wire, and the transport
\* exchanges nothing.
C14_RegRoundTrip ==
  [][/\ (/\ main.op = "WriteReg" /\ main.err = nil
         /\ main'.op = "ReadReg" /\ main'.err = nil
         /\ main'.a = main.a /\ main'.reg = main.reg)
          => main'.out = main.val
     /\ (/\ main.op = "WriteWord" /\ main.err = nil
         /\ main'.op = "ReadWord" /\ main'.err = nil
         /\ main'.a = main.a /\ main'.reg = main.reg)
          => /\ main'.out = main.val
             /\ kern.mem[main.a][main.reg] = <<main.val % 256, main.val \div 256>>]_vars

\* ReadWord at 0x44, register 0x20, returned 0xBEEF; the device holds EF BE
C14_Witness ==
  /\ main.op = "ReadWord" /\ main.a = 68 /\ main.reg = 32 /\ main.err = nil
  /\ main.out = 48879
  /\ kern.mem[68][32] = <<239, 190>>

\* C15: when the driver rejects the select of a register operation, the
\* operation returns the errno of the select, the zero value for a read and
\* the caller's buffer untouched, and the select is its only system call; a
\* transaction is in the log only behind a select that was accepted.
C15_SelectErrorNoTransaction ==
  IsRegOp(main) =>
     /\ (Len(main.calls) >= 1 /\ main.calls[1].req = i2cSlave /\ main.calls[1].errno # 0) =>
           /\ main.err = main.calls[1].errno
           /\ Len(main.calls) = 1
           /\ main.out = 0
           /\ main.obuf = main.buf
     /\ \A i \in SMBusCalls(main) :
           i = 2 /\ main.calls[1].req = i2cSlave /\ main.calls[1].errno = 0

\* the select of a ReadBlockData for 0x50 got EBUSY on a handle with 0x44
\* selected: 0x44 stays selected
C15_Witness ==
  /\ main.op = "ReadBlockData" /\ main.a = 80 /\ Len(main.buf) = 4
  /\ main.err = EBUSY
  /\ Len(main.calls) = 1 /\ main.calls[1].req = i2cSlave /\ main.calls[1].errno = EBUSY
  /\ main.obuf = Fill(4)
  /\ kern.fd = "open" /\ kern.sel = 68

\* C16: a block call either succeeds having moved all of its bytes or fails.
\* A ReadBlockData that returns nil made one transaction the kernel accepted
\* with the full length declared, and hands back that many bytes; one that
\* returns an error hands the caller's buffer back as it was.  A
\* WriteBlockData that returns nil left all its bytes in the device's
\* register; one that returns an error left the devices as they were.
C16_BlockAllOrNothing ==
  [][(IsBlockOp(main') /\ main' # main) =>
       IF main'.err = nil
       THEN /\ SMBusCalls(main') = {2}
            /\ main'.calls[2].errno = 0
            /\ main'.calls[2].cmd.ptr[1] = Len(main'.buf)
            /\ Len(main'.calls[2].res) = Len(main'.buf) + 1
            /\ Len(main'.obuf) = Len(main'.buf)
            /\ (main'.op = "WriteBlockData" /\ main'.buf # <<>>)
                 => kern'.mem[main'.a][main'.reg] = main'.buf
            /\ main'.op = "ReadBlockData"
                 => main'.obuf = DevRead(kern.mem, main'.a, main'.reg, Len(main'.buf))
       ELSE /\ main'.obuf = main'.buf
            /\ kern'.mem = kern.mem]_vars

\* a 4-byte ReadBlockData whose transaction failed with EIO: the buffer still
\* holds what the caller put in, the device holds DE AD BE EF
C16_Witness ==
  /\ main.op = "ReadBlockData" /\ main.a = 80 /\ main.reg = 32 /\ main.err = EIO
  /\ SMBusCalls(main) = {2}
  /\ main.buf = Fill(4) /\ main.obuf = Fill(4)
  /\ kern.mem[80][32] = <<222, 173, 190, 239>>

\* C17 as claimed: the descriptors of the bus open in the process are those of
\* the handles returned and not yet closed; an Open or OpenFile that returns
\* an error leaves none of its own open.
C17_NoDescriptorLeak ==
  /\ fds = (IF kern.fd = "open" THEN 1 ELSE 0)
  /\ (IsOpen(main) /\ main.err # nil) => main.n = 0

\* the size class an operation declares and the direction it transfers in
SizeOf(op) ==
  IF op \in {"ReadReg", "WriteReg"} THEN i2cSMBusByteData
  ELSE IF op \in {"ReadWord", "WriteWord"} THEN i2cSMBusWordData
  ELSE i2cSMBusI2CBlockData
DirOf(op) ==
  IF op \in {"ReadReg", "ReadWord", "ReadBlockData"} THEN i2cSMBusRead ELSE i2cSMBusWrite

\* C18: the i2cCmd of every transaction of a register operation has the
\* direction of the operation (read for ReadReg, ReadWord, ReadBlockData,
\* write for the others), the reg argument as its command byte, and the size
\* class of the operation: byte data pointing to one byte, word data pointing
\* to one 16-bit word, I2C block data pointing to a buffer of len(buf)+1
\* bytes, at most 33, whose first byte is len(buf).
C18_DescriptorFields ==
  IsRegOp(main) =>
     \A i \in SMBusCalls(main) :
        LET c == main.calls[i].cmd
        IN /\ c.rw = DirOf(main.op)
           /\ c.cmd = main.reg
           /\ c.len = SizeOf(main.op)
           /\ c.len = i2cSMBusByteData => Len(c.ptr) = 1 /\ c.ptr[1] \in 0..255
           /\ c.len = i2cSMBusWordData => Len(c.ptr) = 1 /\ c.ptr[1] \in 0..65535
           /\ c.len = i2cSMBusI2CBlockData =>
                 /\ Len(c.ptr) = Len(main.buf) + 1
                 /\ c.ptr[1] = Len(main.buf)
                 /\ Len(c.ptr) <= i2cSMBusBlockMax + 1
           /\ (c.rw = i2cSMBusWrite /\ c.len # i2cSMBusI2CBlockData) => c.ptr = <<main.val>>

\* WriteReg(0x44, 0x20, 0xDE): write, command 0x20, byte data, one byte 0xDE
C18_Witness ==
  /\ main.op = "WriteReg" /\ main.a = 68 /\ main.err = nil
  /\ SMBusCalls(main) = {2}
  /\ main.calls[2].cmd = i2cCmd(i2cSMBusWrite, 32, i2cSMBusByteData, <<222>>)

\* the accepted writes of r to the sensor's enable register, in order
EnableWrites(r) ==
  {i \in 1..Len(r.calls) :
     /\ r.calls[i].req = i2cSMBus /\ r.calls[i].errno = 0
     /\ r.calls[i].cmd.rw = i2cSMBusWrite
     /\ r.calls[i].cmd.cmd = BitOr(CmdBit, RegEnable)}
LastOf(S) == CHOOSE i \in S : \A j \in S : j <= i

\* C19 as claimed: when tsl2591.Open or FullLuminosity returns, with or
\* without an error, and the call wrote an enable to the sensor, the last
\* value it wrote to the enable register is EnablePowerOFF and the sensor
\* holds it.
C19_PoweredOffOnReturn ==
  (main.op \in {"tsl2591.Open", "FullLuminosity"}
     /\ \E i \in EnableWrites(main) : main.calls[i].cmd.ptr # <<EnablePowerOFF>>) =>
     /\ main.calls[LastOf(EnableWrites(main))].cmd.ptr = <<EnablePowerOFF>>
     /\ kern.mem[Addr][BitOr(CmdBit, RegEnable)] = <<EnablePowerOFF>>

====
